---- MODULE Spec2Model ----
(***************************************************************************)
(* User registration API: POST /users (create) and POST /users/activate.   *)
(* The users table, the clock and the requests in flight are the state;    *)
(* every await of a request handler is one step of its worker.             *)
(***************************************************************************)
EXTENDS Integers, Sequences, FiniteSets, TLC

VARIABLES users, now, pc, req, outbox, nreq

vars == <<users, now, pc, req, outbox, nreq>>

(***************************************************************************)
(* Bounds of the model                                                     *)
(***************************************************************************)
\* the clock stops ticking at MaxTime
MaxTime == 2
\* requests accepted in one behaviour
MaxRequests == 2

\* the workers that handle requests concurrently
Procs == {"w1", "w2"}
Emails == {"a@x.com", "b@x.com"}
Passwords == {"p1", "p2"}

(***************************************************************************)
(* Program constants                                                       *)
(***************************************************************************)
\* timedelta(minutes=1), in minutes (one tick of the clock is one minute)
TTL == 1
\* random.randint(0, 9999)
MaxCode == 9999
\* f"{...:04d}" and len(value) != 4
CodeLen == 4

USER_STATUS_CREATED == "created"
USER_STATUS_ACTIVATED == "activated"
VALIDATION_ERROR_CODE == "VALIDATION_ERROR_CODE"
USER_ALREADY_EXISTS_ERROR_CODE == "USER_ALREADY_EXISTS_ERROR_CODE"
USER_ALREADY_ACTIVATED_ERROR_CODE == "USER_ALREADY_ACTIVATED_ERROR_CODE"
INVALID_ACTIVATION_CODE_ERROR_CODE == "INVALID_ACTIVATION_CODE_ERROR_CODE"
EXPIRED_ACTIVATION_CODE_ERROR_CODE == "EXPIRED_ACTIVATION_CODE_ERROR_CODE"
INVALID_EMAIL_ERROR_CODE == "INVALID_EMAIL_ERROR_CODE"
INVALID_PASSWORD_ERROR_CODE == "INVALID_PASSWORD_ERROR_CODE"

(***************************************************************************)
(* Strings are sequences of one-character strings.                         *)
(***************************************************************************)
DigitChars == <<"0", "1", "2", "3", "4", "5", "6", "7", "8", "9">>

\* the characters str.strip() removes
IsSpace(c) == c \in {" ", "\t", "\n"}

\* str.isdigit() of one character: the ASCII digits, and also the characters
\* whose Unicode Numeric_Type is Digit, such as the superscripts ("sup2" and
\* "sup3" stand for U+00B2 and U+00B3, for which isdigit() is True and
\* isdecimal() is False)
IsDigit(c) == c \in {DigitChars[i] : i \in 1..10} \cup {"sup2", "sup3"}

RECURSIVE LStrip(_)
LStrip(s) == IF s # <<>> /\ IsSpace(Head(s)) THEN LStrip(Tail(s)) ELSE s

RECURSIVE RStrip(_)
RStrip(s) ==
  IF s # <<>> /\ IsSpace(s[Len(s)]) THEN RStrip(SubSeq(s, 1, Len(s) - 1)) ELSE s

Strip(s) == RStrip(LStrip(s))

\* str.isdigit(): non-empty and every character a digit
StrIsDigit(s) == s # <<>> /\ \A i \in 1..Len(s) : IsDigit(s[i])

RECURSIVE Decimal(_)
Decimal(n) ==
  IF n < 10 THEN <<DigitChars[n + 1]>>
  ELSE Decimal(n \div 10) \o <<DigitChars[(n % 10) + 1]>>

RECURSIVE ZeroPad(_, _)
ZeroPad(s, width) == IF Len(s) >= width THEN s ELSE ZeroPad(<<"0">> \o s, width)

\* f"{n}": the decimal form with no minimum width
Format04d_unpadded(n) == Decimal(n)

\* f"{n:04d}"
Format04d(n) == ZeroPad(Decimal(n), CodeLen)

\* the draws of random.randint(0, 9999) the model explores
Draws == {n \in {0, 1234} : n <= MaxCode}

_generate_code(n) == Format04d(n)

(***************************************************************************)
(* app.core.security                                                       *)
(***************************************************************************)
hash_password(password) == <<"$argon2", password>>

verify_password(plain_password, hashed_password) ==
  hashed_password = hash_password(plain_password)

(***************************************************************************)
(* app.schemas.users                                                       *)
(***************************************************************************)
\* UserActivate.check_code_value: TRUE when the validator returns the value
check_code_value(value) ==
  IF Strip(value) = <<>> THEN FALSE
  ELSE IF Len(value) # CodeLen THEN FALSE
  ELSE IF ~StrIsDigit(value) THEN FALSE
  ELSE TRUE

\* the activation codes a client may send
CodeInputs ==
  {_generate_code(n) : n \in Draws}
    \cup { <<>>, <<" ", " ", " ", " ">>, <<"1", "2">>, <<"a", "b", "c", "d">>,
           <<"1", "2", "sup3", "4">> }

(***************************************************************************)
(* HTTP responses                                                          *)
(***************************************************************************)
\* a JSON array, as sanitized_errors is; every other record of a body is a
\* JSON object
JsonArray(items) == [array |-> items]

IsJsonObject(v) == "array" \notin DOMAIN v

NoResp == [status |-> 0]

UserResponse(status_code, email, status) ==
  [status |-> status_code, body |-> [email |-> email, status |-> status]]

\* main.api_exception_handler applied to an APIException
APIException(status_code, code, message, details) ==
  [status |-> status_code,
   body |-> [error |-> [code |-> code, message |-> message, details |-> details]]]

UserAlreadyExists(email) ==
  APIException(409, USER_ALREADY_EXISTS_ERROR_CODE,
               "A user with this email already exists", [email |-> email])

UserAlreadyActivated(email) ==
  APIException(409, USER_ALREADY_ACTIVATED_ERROR_CODE,
               "This user account is already activated", [email |-> email])

InvalidActivationCode(code) ==
  APIException(400, INVALID_ACTIVATION_CODE_ERROR_CODE,
               "The provided activation code is invalid", [code |-> code])

ExpiredActivationCode(code) ==
  APIException(400, EXPIRED_ACTIVATION_CODE_ERROR_CODE,
               "The provided activation code has expired", [code |-> code])

InvalidEmail(details) ==
  APIException(401, INVALID_EMAIL_ERROR_CODE,
               "The provided email address is not found", details)

InvalidPassword(details) ==
  APIException(401, INVALID_PASSWORD_ERROR_CODE,
               "The provided password is incorrect", details)

\* main.validation_exception_handler
validation_exception_handler(loc) ==
  [status |-> 422,
   body |-> [error |-> [code |-> VALIDATION_ERROR_CODE,
                        message |-> "Invalid request payload",
                        details |-> JsonArray(<<[loc |-> loc, type |-> "value_error"]>>)]]]

\* ErrorHandlingMiddleware.dispatch, the except branch
InternalServerError(exc) ==
  [status |-> 500,
   body |-> [error |-> [code |-> "INTERNAL_SERVER_ERROR",
                        message |-> <<"[", exc,
                          "] - An internal error occurred. Please try again later.">>]]]

\* an exception raised outside the middleware's try (its own logging line
\* awaits request.json()): the server's plain-text 500
ServerErrorResponse ==
  [status |-> 500, body |-> [text |-> "Internal Server Error"]]

\* auth_security = HTTPBasic(): with no Authorization header the dependency
\* raises HTTPException(401), answered by the framework's own handler
NotAuthenticated ==
  [status |-> 401, body |-> [detail |-> "Not authenticated"]]

(***************************************************************************)
(* The users table and UserRepository                                      *)
(***************************************************************************)
None == [none |-> TRUE]

\* a users table whose email column has no UNIQUE constraint
UniqueViolation_unconstrained(table, email) == FALSE

\* email TEXT UNIQUE NOT NULL: would a row with this email violate it
UniqueViolation(table, email) == \E r \in table : r.email = email

\* uuid.uuid4(): an id no row has
uuid4(table) ==
  IF table = {} THEN 1
  ELSE 1 + (CHOOSE m \in {r.id : r \in table} : \A r \in table : r.id <= m)

\* an INSERT that binds the code to the wrong column and leaves
\* activation_code empty
NewRow_code_dropped(table, email, password_hash, code, clock) ==
  [id |-> uuid4(table),
   email |-> email,
   password_hash |-> password_hash,
   is_active |-> FALSE,
   activation_code |-> <<>>,
   activation_expires_at |-> clock + TTL,
   created_at |-> clock]

\* an INSERT that writes is_active = true
NewRow_born_active(table, email, password_hash, code, clock) ==
  [id |-> uuid4(table),
   email |-> email,
   password_hash |-> password_hash,
   is_active |-> TRUE,
   activation_code |-> code,
   activation_expires_at |-> clock + TTL,
   created_at |-> clock]

\* an INSERT whose expires_at is the current time, the timedelta left out
NewRow_expiring_at_once(table, email, password_hash, code, clock) ==
  [id |-> uuid4(table),
   email |-> email,
   password_hash |-> password_hash,
   is_active |-> FALSE,
   activation_code |-> code,
   activation_expires_at |-> clock,
   created_at |-> clock]

\* the row UserRepository.create_user inserts
NewRow(table, email, password_hash, code, clock) ==
  [id |-> uuid4(table),
   email |-> email,
   password_hash |-> password_hash,
   is_active |-> FALSE,
   activation_code |-> code,
   activation_expires_at |-> clock + TTL,
   created_at |-> clock]

\* a lookup whose WHERE clause also asks for is_active, and so misses the
\* accounts that are not activated yet
get_user_by_email_active_only(table, email) ==
  IF \E r \in table : r.email = email /\ r.is_active
  THEN CHOOSE r \in table : r.email = email /\ r.is_active
  ELSE None

\* SELECT * FROM users WHERE email = $1, fetchrow: the first row or None
get_user_by_email(table, email) ==
  IF \E r \in table : r.email = email
  THEN CHOOSE r \in table : r.email = email
  ELSE None

(***************************************************************************)
(* Requests                                                                *)
(***************************************************************************)
\* a worker's request: what the client sent, the code generated for a
\* create that is between its lookup and its notification, and the response
IdleReq ==
  [kind |-> "none", email |-> "", password |-> "", code |-> <<>>,
   gen_code |-> <<>>, resp |-> NoResp]

Free(p) == pc[p] \in {"idle", "done"}

\* no request is in flight
Quiet == \A q \in Procs : Free(q)

\* a fresh deployment: init_db has created an empty users table
Init ==
  /\ users = {}
  /\ now = 0
  /\ pc = [p \in Procs |-> "idle"]
  /\ req = [p \in Procs |-> IdleReq]
  /\ outbox = <<>>
  /\ nreq = 0

\* time passes
Tick ==
  /\ now < MaxTime
  /\ now' = now + 1
  /\ UNCHANGED <<users, pc, req, outbox, nreq>>

\* POST /users with a valid body at worker p, up to the INSERT:
\* UserService.create_user's lookup, the hash and the code
create_user_request(p, email, password) ==
  /\ Free(p)
  /\ nreq < MaxRequests
  /\ nreq' = nreq + 1
  /\ LET r == [IdleReq EXCEPT !.kind = "create", !.email = email,
                              !.password = password] IN
       IF get_user_by_email(users, email) # None
       THEN /\ req' = [req EXCEPT ![p] = [r EXCEPT !.resp = UserAlreadyExists(email)]]
            /\ pc' = [pc EXCEPT ![p] = "done"]
       ELSE /\ \E n \in Draws :
                 req' = [req EXCEPT ![p] = [r EXCEPT !.gen_code = _generate_code(n)]]
            /\ pc' = [pc EXCEPT ![p] = "create_insert"]
  /\ UNCHANGED <<users, now, outbox>>

\* UserRepository.create_user: the INSERT, or the constraint's error, which
\* nothing catches before ErrorHandlingMiddleware
create_user_insert(p) ==
  /\ pc[p] = "create_insert"
  /\ IF UniqueViolation(users, req[p].email)
     THEN /\ req' = [req EXCEPT ![p].gen_code = <<>>,
                                ![p].resp = InternalServerError("UniqueViolationError")]
          /\ pc' = [pc EXCEPT ![p] = "done"]
          /\ users' = users
     ELSE /\ users' = users \cup
               {NewRow(users, req[p].email, hash_password(req[p].password),
                       req[p].gen_code, now)}
          /\ pc' = [pc EXCEPT ![p] = "create_notify"]
          /\ req' = req
  /\ UNCHANGED <<now, outbox, nreq>>

\* a notifier that delivers its message twice
send_verification_email_twice(box, email, code) ==
  Append(Append(box, <<email, code>>), <<email, code>>)

\* EmailConsoleClient.send_verification_email: one message, To=email
\* Code=code, added to what has been sent
send_verification_email(box, email, code) == Append(box, <<email, code>>)

\* the await of the notifier in UserService.create_user, then the 201
create_user_notify(p) ==
  /\ pc[p] = "create_notify"
  /\ outbox' = send_verification_email(outbox, req[p].email, req[p].gen_code)
  /\ req' = [req EXCEPT ![p].gen_code = <<>>,
                        ![p].resp = UserResponse(201, req[p].email, USER_STATUS_CREATED)]
  /\ pc' = [pc EXCEPT ![p] = "done"]
  /\ UNCHANGED <<users, now, nreq>>

\* the checks with the code compared before the active flag is looked at
activate_user_checks_code_first(user_db, username, password, code, clock) ==
  IF user_db = None THEN InvalidEmail([email |-> username])
  ELSE IF ~verify_password(password, user_db.password_hash)
    THEN InvalidPassword([email |-> username])
  ELSE IF user_db.activation_code # code THEN InvalidActivationCode(code)
  ELSE IF user_db.is_active THEN UserAlreadyActivated(username)
  ELSE IF user_db.activation_expires_at < clock THEN ExpiredActivationCode(code)
  ELSE NoResp

\* the error of the first failing check of UserService.activate_user, or
\* NoResp when all five pass
activate_user_checks(user_db, username, password, code, clock) ==
  IF user_db = None THEN InvalidEmail([email |-> username])
  ELSE IF ~verify_password(password, user_db.password_hash)
    THEN InvalidPassword([email |-> username])
  ELSE IF user_db.is_active THEN UserAlreadyActivated(username)
  ELSE IF user_db.activation_code # code THEN InvalidActivationCode(code)
  ELSE IF user_db.activation_expires_at < clock THEN ExpiredActivationCode(code)
  ELSE NoResp

\* POST /users/activate with Basic-Auth credentials at worker p: the body is
\* validated before the handler runs, then UserService.activate_user looks
\* the account up and makes its five checks
activate_user_request(p, email, password, code) ==
  /\ Free(p)
  /\ nreq < MaxRequests
  /\ nreq' = nreq + 1
  /\ LET r == [IdleReq EXCEPT !.kind = "activate", !.email = email,
                              !.password = password, !.code = code]
         err == activate_user_checks(get_user_by_email(users, email),
                                     email, password, code, now) IN
       IF ~check_code_value(code)
       THEN /\ req' = [req EXCEPT ![p] =
                   [r EXCEPT !.resp = validation_exception_handler(<<"body", "code">>)]]
            /\ pc' = [pc EXCEPT ![p] = "done"]
       ELSE /\ req' = [req EXCEPT ![p] = [r EXCEPT !.resp = err]]
            /\ pc' = [pc EXCEPT ![p] = IF err = NoResp THEN "activate_write" ELSE "done"]
  /\ UNCHANGED <<users, now, outbox>>

\* an activation written as an UPDATE that sets is_active and clears the
\* code
repository_activate_user_clears_code(table, email) ==
  {IF r.email = email THEN [r EXCEPT !.is_active = TRUE, !.activation_code = <<>>]
   ELSE r : r \in table}

\* what the call of the repository's activate_user does to the table:
\* nothing, there being no such method and so no statement
repository_activate_user(table, email) == table

\* self.user_repository.activate_user(user_db["id"]): UserRepository defines
\* no activate_user, so the attribute lookup raises AttributeError, which
\* ErrorHandlingMiddleware answers; no statement reaches the table
activate_user_write(p) ==
  /\ pc[p] = "activate_write"
  /\ users' = repository_activate_user(users, req[p].email)
  /\ req' = [req EXCEPT ![p].resp = InternalServerError("AttributeError")]
  /\ pc' = [pc EXCEPT ![p] = "done"]
  /\ UNCHANGED <<now, outbox, nreq>>

Step(p) ==
  \/ create_user_insert(p)
  \/ create_user_notify(p)
  \/ activate_user_write(p)

\* requests arrive at any time: the workers run concurrently
Next ==
  \/ Tick
  \/ \E p \in Procs, email \in Emails, password \in Passwords :
       create_user_request(p, email, password)
  \/ \E p \in Procs, email \in Emails, password \in Passwords, code \in CodeInputs :
       activate_user_request(p, email, password, code)
  \/ \E p \in Procs : Step(p)

Spec == Init /\ [][Next]_vars

\* a client that waits for each response before it sends the next request
NextSeq ==
  \/ Tick
  \/ \E p \in Procs, email \in Emails, password \in Passwords :
       Quiet /\ create_user_request(p, email, password)
  \/ \E p \in Procs, email \in Emails, password \in Passwords, code \in CodeInputs :
       Quiet /\ activate_user_request(p, email, password, code)
  \/ \E p \in Procs : Step(p)

SpecSeq == Init /\ [][NextSeq]_vars

\* the users table outlives the process (CREATE TABLE IF NOT EXISTS): at
\* startup it may hold an account of an earlier run, active or not
StoredRows ==
  {[NewRow({}, "a@x.com", hash_password("p1"), _generate_code(1234), 0)
      EXCEPT !.is_active = active] : active \in BOOLEAN}

InitStored ==
  /\ users \in {{r} : r \in StoredRows}
  /\ now = 0
  /\ pc = [p \in Procs |-> "idle"]
  /\ req = [p \in Procs |-> IdleReq]
  /\ outbox = <<>>
  /\ nreq = 0

SpecStored == InitStored /\ [][Next]_vars

\* a notifier failure that undoes the insert, as a transaction around the
\* whole request would
after_notifier_failure_rollback(table, email) == {r \in table : r.email # email}

\* the insert is not undone when the notifier raises: get_db hands out a
\* connection with no transaction around the request, so the INSERT has
\* already been committed
after_notifier_failure(table, email) == table

\* EmailClient.send_verification_email, the base class a UserService may be
\* given: it raises NotImplementedError, which nothing catches before
\* ErrorHandlingMiddleware
create_user_notify_raises(p) ==
  /\ pc[p] = "create_notify"
  /\ users' = after_notifier_failure(users, req[p].email)
  /\ req' = [req EXCEPT ![p].gen_code = <<>>,
                        ![p].resp = InternalServerError("NotImplementedError")]
  /\ pc' = [pc EXCEPT ![p] = "done"]
  /\ UNCHANGED <<now, outbox, nreq>>

\* POST /users/activate without an Authorization header: the credentials
\* dependency fails before the body is validated and before the handler runs
activate_user_unauthenticated(p, code) ==
  /\ Free(p)
  /\ nreq < MaxRequests
  /\ nreq' = nreq + 1
  /\ req' = [req EXCEPT ![p] =
       [IdleReq EXCEPT !.kind = "activate", !.code = code, !.resp = NotAuthenticated]]
  /\ pc' = [pc EXCEPT ![p] = "done"]
  /\ UNCHANGED <<users, now, outbox>>

\* a POST whose body is not JSON: ErrorHandlingMiddleware.dispatch awaits
\* request.json() for its log line before it enters its try
unreadable_body(p, kind) ==
  /\ Free(p)
  /\ nreq < MaxRequests
  /\ nreq' = nreq + 1
  /\ req' = [req EXCEPT ![p] =
       [IdleReq EXCEPT !.kind = kind, !.resp = ServerErrorResponse]]
  /\ pc' = [pc EXCEPT ![p] = "done"]
  /\ UNCHANGED <<users, now, outbox>>

\* random.randint(0, 9999): every integer of the closed range
AllDraws == 0..MaxCode

\* one create for a new account, taken at the point where the service has
\* drawn its code, for every draw of the generator
InitGen ==
  /\ users = {}
  /\ now = 0
  /\ outbox = <<>>
  /\ nreq = 1
  /\ pc = [p \in Procs |-> IF p = "w1" THEN "create_insert" ELSE "idle"]
  /\ \E n \in AllDraws :
       req = [p \in Procs |->
                IF p = "w1"
                THEN [IdleReq EXCEPT !.kind = "create", !.email = "a@x.com",
                                     !.password = "p1",
                                     !.gen_code = _generate_code(n)]
                ELSE IdleReq]

NextGen == create_user_insert("w1") \/ create_user_notify("w1")

SpecGen == InitGen /\ [][NextGen]_vars

\* every request the HTTP surface accepts, and a notifier that may fail
NextWire ==
  \/ Next
  \/ \E p \in Procs : create_user_notify_raises(p)
  \/ \E p \in Procs, code \in CodeInputs : activate_user_unauthenticated(p, code)
  \/ \E p \in Procs, kind \in {"create", "activate"} : unreadable_body(p, kind)

SpecWire == Init /\ [][NextWire]_vars

(***************************************************************************)
(* Vocabulary of the properties                                            *)
(***************************************************************************)
\* worker p takes a new request in this step
Arrives(p) == Free(p) /\ req'[p] # req[p]

\* worker p leaves the step it was waiting in
Leaves(p, at) == pc[p] = at /\ pc'[p] # at

Row(table, email) == get_user_by_email(table, email)

RowsOf(table, email) == {r \in table : r.email = email}

\* a create for this email has returned its 201 (the notification is sent
\* in the same step)
Notified(email) == \E i \in 1..Len(outbox) : outbox[i][1] = email

Activated200(email) == UserResponse(200, email, USER_STATUS_ACTIVATED)

Created201(email) == UserResponse(201, email, USER_STATUS_CREATED)

\* the table after one account's active flag is set
MarkActive(table, email) ==
  {IF r.email = email THEN [r EXCEPT !.is_active = TRUE] ELSE r : r \in table}

\* the five conditions of a successful activation, the last as the
\* specification words it: the current time is before the expiry
FiveHold(table, clock, email, password, code) ==
  LET u == Row(table, email) IN
    /\ u # None
    /\ verify_password(password, u.password_hash)
    /\ ~u.is_active
    /\ code = u.activation_code
    /\ clock < u.activation_expires_at

\* worker p's request gets its response in this step
Completes(p) == pc'[p] = "done" /\ req'[p] # req[p]

\* C1: an activation request succeeds (200 "activated", account active
\* afterwards) if and only if, at the instant it is answered, the account
\* exists, the password verifies, the account is not yet active, the code
\* matches and the time is before the expiry; when all five hold it does not
\* end in an error.
C1_ActivateSucceedsIffFiveHold ==
  [][\A p \in Procs :
       (Completes(p) /\ req'[p].kind = "activate")
         => ((/\ req'[p].resp = Activated200(req'[p].email)
              /\ Row(users', req'[p].email) # None
              /\ Row(users', req'[p].email).is_active)
               <=> FiveHold(users, now, req'[p].email, req'[p].password,
                            req'[p].code))
    ]_vars

\* C2: a failing activation request is answered with the error of the first
\* failing check in the order: account not found, password mismatch, already
\* active, code mismatch, expired. A wrong password wins over an active
\* account and a wrong or expired code, an active account wins over a wrong
\* or expired code, and a wrong code wins over an expired one.
C2_FirstFailingCheckWins ==
  [][\A p \in Procs :
       (Arrives(p) /\ req'[p].kind = "activate" /\ req'[p].resp.status # 422)
         => LET email == req'[p].email
                code == req'[p].code
                u == Row(users, email)
                ok1 == u # None
                ok2 == ok1 /\ verify_password(req'[p].password, u.password_hash)
                ok3 == ok2 /\ ~u.is_active
                ok4 == ok3 /\ u.activation_code = code
            IN  /\ ~ok1 => req'[p].resp = InvalidEmail([email |-> email])
                /\ (ok1 /\ ~ok2) => req'[p].resp = InvalidPassword([email |-> email])
                /\ (ok2 /\ ~ok3) => req'[p].resp = UserAlreadyActivated(email)
                /\ (ok3 /\ ~ok4) => req'[p].resp = InvalidActivationCode(code)
                /\ (ok4 /\ now > u.activation_expires_at)
                     => req'[p].resp = ExpiredActivationCode(code)
                /\ ~ok4 => pc'[p] = "done"
    ]_vars

\* on an active account whose code has expired: a request with a wrong
\* password and a wrong code was answered InvalidPassword, and one with the
\* right password and a wrong code AccountAlreadyActivated
C2_Witness ==
  \E p, q \in Procs :
    /\ p # q /\ pc[p] = "done" /\ pc[q] = "done"
    /\ req[p].kind = "activate" /\ req[q].kind = "activate"
    /\ req[p].email = req[q].email
    /\ LET u == Row(users, req[p].email) IN
         /\ u # None /\ u.is_active /\ now > u.activation_expires_at
         /\ ~verify_password(req[p].password, u.password_hash)
         /\ check_code_value(req[p].code) /\ req[p].code # u.activation_code
         /\ req[p].resp = InvalidPassword([email |-> req[p].email])
         /\ verify_password(req[q].password, u.password_hash)
         /\ check_code_value(req[q].code) /\ req[q].code # u.activation_code
         /\ req[q].resp = UserAlreadyActivated(req[q].email)

\* C3: once a create for an email has succeeded, every later create for that
\* email, whatever its password, is answered 409 AccountAlreadyExists carrying
\* the email, inserts and changes no account and sends no notification.
C3_DuplicateCreateRejected ==
  [][\A p \in Procs :
       (Arrives(p) /\ req'[p].kind = "create" /\ Notified(req'[p].email))
         => /\ pc'[p] = "done"
            /\ req'[p].resp = UserAlreadyExists(req'[p].email)
            /\ req'[p].resp.status = 409
            /\ users' = users
            /\ outbox' = outbox
    ]_vars

\* one worker answered a create with 201 and then a second create for the
\* same email with another password with 409; the account still has the
\* first password's hash and was notified once
C3_Witness ==
  \E p \in Procs :
    /\ pc[p] = "done" /\ req[p].kind = "create"
    /\ req[p].resp = UserAlreadyExists(req[p].email)
    /\ Notified(req[p].email)
    /\ Cardinality(RowsOf(users, req[p].email)) = 1
    /\ ~verify_password(req[p].password, Row(users, req[p].email).password_hash)
    /\ Len(outbox) = 1
    /\ \A q \in Procs \ {p} : pc[q] = "idle"

\* C4: with the right email, password and code before the expiry, the first
\* activation returns 200 "activated" and a second one returns 409
\* AccountAlreadyActivated; once an account is active no request with the
\* right password returns success again.
C4_FirstOkThenAlreadyActivated ==
  [][\A p \in Procs :
       /\ Leaves(p, "activate_write")
            => /\ req'[p].resp.status = 200
               /\ req'[p].resp.body.status = USER_STATUS_ACTIVATED
       /\ (/\ Arrives(p) /\ req'[p].kind = "activate" /\ req'[p].resp.status # 422
           /\ Row(users, req'[p].email) # None
           /\ Row(users, req'[p].email).is_active
           /\ verify_password(req'[p].password, Row(users, req'[p].email).password_hash))
            => /\ pc'[p] = "done"
               /\ req'[p].resp.status = 409
               /\ req'[p].resp.body.error.code = USER_ALREADY_ACTIVATED_ERROR_CODE
    ]_vars

\* C5: on an existing, not yet active account, with the right password and
\* the matching code, the request is rejected with 400 ExpiredActivationCode
\* exactly when the current time is greater than or equal to the expiry, the
\* instant of the expiry included.
C5_ExpiredAtOrAfterExpiry ==
  [][\A p \in Procs :
       (Arrives(p) /\ req'[p].kind = "activate" /\ req'[p].resp.status # 422)
         => LET u == Row(users, req'[p].email) IN
              (/\ u # None
               /\ verify_password(req'[p].password, u.password_hash)
               /\ ~u.is_active
               /\ u.activation_code = req'[p].code)
                => ((req'[p].resp = ExpiredActivationCode(req'[p].code))
                      <=> now >= u.activation_expires_at)
    ]_vars

\* the new account of a create: inactive, with the hash of the password and
\* the code generated for the request
IsNewAccount(r, email, password, code) ==
  /\ r.email = email
  /\ ~r.is_active
  /\ verify_password(password, r.password_hash)
  /\ r.activation_code = code

\* C6: a create for an email that has no account returns 201 with status
\* "created" and the same email, and the table then holds exactly one account
\* for the email: inactive, with the hash of the given password and the
\* activation code generated for this request.
C6_CreateInsertsInactiveAccount ==
  [][\A p \in Procs :
       /\ (Arrives(p) /\ req'[p].kind = "create" /\ RowsOf(users, req'[p].email) = {})
            => pc'[p] = "create_insert"
       /\ Leaves(p, "create_insert")
            => /\ pc'[p] = "create_notify"
               /\ \E r \in users' :
                    /\ IsNewAccount(r, req[p].email, req[p].password, req[p].gen_code)
                    /\ RowsOf(users', req[p].email) = {r}
                    /\ users' = users \cup {r}
       /\ Leaves(p, "create_notify")
            => /\ pc'[p] = "done"
               /\ req'[p].resp = Created201(req[p].email)
               /\ req'[p].resp.body.email = req[p].email
               /\ \E r \in users' :
                    /\ IsNewAccount(r, req[p].email, req[p].password, req[p].gen_code)
                    /\ RowsOf(users', req[p].email) = {r}
    ]_vars

\* a create was answered 201 and its account is in the table, inactive, with
\* the password's hash and the code that was sent
C6_Witness ==
  \E p \in Procs :
    /\ pc[p] = "done" /\ req[p].kind = "create"
    /\ req[p].resp = Created201(req[p].email)
    /\ \E r \in users, i \in 1..Len(outbox) :
         /\ RowsOf(users, req[p].email) = {r}
         /\ outbox[i][1] = req[p].email
         /\ IsNewAccount(r, req[p].email, req[p].password, outbox[i][2])
         /\ Len(r.activation_code) = CodeLen

\* a code the specification calls malformed: empty or blank, not 4
\* characters long, or with a character that is no decimal digit
Malformed(code) ==
  \/ Strip(code) = <<>>
  \/ Len(code) # CodeLen
  \/ \E i \in 1..Len(code) : code[i] \notin {DigitChars[k] : k \in 1..10}

\* C7: an activation request with a malformed code is answered 422
\* VALIDATION_ERROR before any service check runs, whatever the email, the
\* password and the account's state, and no account is modified.
C7_MalformedCodeIs422 ==
  [][\A p \in Procs :
       (Arrives(p) /\ req'[p].kind = "activate" /\ Malformed(req'[p].code))
         => /\ pc'[p] = "done"
            /\ req'[p].resp.status = 422
            /\ req'[p].resp.body.error.code = VALIDATION_ERROR_CODE
            /\ users' = users
    ]_vars

\* C8: when two creates for one email have both passed the lookup, exactly
\* one insert succeeds and the request whose insert hits the uniqueness
\* constraint is answered 409 AccountAlreadyExists, never a 500.
C8_RaceLoserGetsAlreadyExists ==
  [][\A p \in Procs :
       (Leaves(p, "create_insert") /\ RowsOf(users, req[p].email) # {})
         => /\ users' = users
            /\ pc'[p] = "done"
            /\ req'[p].resp = UserAlreadyExists(req[p].email)
    ]_vars

\* C9: in every reachable state the table holds at most one account per
\* email.
C9_EmailUnique ==
  \A r1, r2 \in users : r1.email = r2.email => r1 = r2

\* two creates for one email raced past the lookup: one was answered 201,
\* the other's insert was refused, and the table holds one account
C9_Witness ==
  \E p, q \in Procs :
    /\ p # q /\ pc[p] = "done" /\ pc[q] = "done"
    /\ req[p].kind = "create" /\ req[q].kind = "create"
    /\ req[p].email = req[q].email
    /\ req[p].resp = Created201(req[p].email)
    /\ req[q].resp = InternalServerError("UniqueViolationError")
    /\ Cardinality(RowsOf(users, req[p].email)) = 1

\* C10: when two activations of one inactive account, both with the right
\* password and the matching unexpired code, have both passed the checks
\* before either writes, both complete without error and each write leaves
\* the account active with every other field as created.
C10_ConcurrentActivationsBothSucceed ==
  [][\A p, q \in Procs :
       (/\ p # q
        /\ Leaves(p, "activate_write")
        /\ req[q].kind = "activate" /\ req[q].email = req[p].email
        /\ \/ pc[q] = "activate_write"
           \/ pc[q] = "done" /\ req[q].resp = Activated200(req[q].email))
         => /\ pc'[p] = "done"
            /\ req'[p].resp = Activated200(req[p].email)
            /\ users' = MarkActive(users, req[p].email)
    ]_vars

\* worker p's notifier raises in this step
NotifierFails(p) == Leaves(p, "create_notify") /\ outbox' = outbox

\* worker p has answered a create whose notifier raised
NotifierFailed(p) ==
  /\ pc[p] = "done" /\ req[p].kind = "create"
  /\ req[p].resp = InternalServerError("NotImplementedError")

\* C11: when the notifier fails during a create, the caller gets an error
\* and the insert is not rolled back: the account stays in the table,
\* inactive, with its code and expiry, and a later create for the same email
\* fails with AccountAlreadyExists.
C11_NotifierFailureKeepsAccount ==
  [][\A p \in Procs :
       /\ NotifierFails(p)
            => /\ pc'[p] = "done"
               /\ req'[p].resp.status = 500
               /\ users' = users
               /\ \E r \in users' :
                    /\ RowsOf(users', req[p].email) = {r}
                    /\ ~r.is_active
                    /\ r.activation_code = req[p].gen_code
                    /\ r.activation_expires_at = r.created_at + TTL
       /\ \A q \in Procs :
            (NotifierFailed(q) /\ Arrives(p) /\ req'[p].kind = "create"
               /\ req'[p].resp # ServerErrorResponse
               /\ req'[p].email = req[q].email)
              => /\ pc'[p] = "done"
                 /\ req'[p].resp = UserAlreadyExists(req'[p].email)
    ]_vars

\* a create whose notifier raised was answered 500, its account is in the
\* table and no notification went out; a create for the same email was
\* answered 409
C11_Witness ==
  \E p, q \in Procs :
    /\ p # q /\ NotifierFailed(q)
    /\ pc[p] = "done" /\ req[p].kind = "create"
    /\ req[p].email = req[q].email
    /\ req[p].resp = UserAlreadyExists(req[p].email)
    /\ outbox = <<>>
    /\ \E r \in users : RowsOf(users, req[q].email) = {r} /\ ~r.is_active

\* the names type(exc).__name__ takes for the failures of the model
ExceptionTypeNames == {"UniqueViolationError", "AttributeError", "NotImplementedError"}

Answered(p) == pc[p] = "done" /\ req[p].resp.status >= 400

\* C12: every failure that is neither a domain error nor a validation error
\* is answered 500 with code INTERNAL_SERVER_ERROR and one generic message:
\* the body is the same for every internal failure and names nothing of the
\* failure, the exception's type included.
C12_InternalErrorIsGeneric ==
  \A p, q \in Procs :
    (Answered(p) /\ req[p].resp.status = 500)
      => /\ "error" \in DOMAIN req[p].resp.body
         /\ req[p].resp.body.error.code = "INTERNAL_SERVER_ERROR"
         /\ \A i \in DOMAIN req[p].resp.body.error.message :
              req[p].resp.body.error.message[i] \notin ExceptionTypeNames
         /\ (Answered(q) /\ req[q].resp.status = 500) => req[q].resp = req[p].resp

\* {"error": {"code", "message", "details"?}} with an object for details
Envelope(body) ==
  /\ "error" \in DOMAIN body
  /\ {"code", "message"} \subseteq DOMAIN body.error
  /\ DOMAIN body.error \subseteq {"code", "message", "details"}
  /\ "details" \in DOMAIN body.error => IsJsonObject(body.error.details)

\* C13: every response of the two endpoints that is not a success has the
\* envelope {error: {code, message, details?}}, details being an object when
\* present: domain errors, 422, 500 and the activation sent without
\* Basic-Auth credentials alike.
C13_UniformEnvelope ==
  \A p \in Procs : Answered(p) => Envelope(req[p].resp.body)

\* the account of the table that has this id, the table holding one
WithId(table, id) == CHOOSE r \in table : r.id = id

Ids(table) == {r.id : r \in table}

\* worker p has answered an activation that passed the five checks
PassedChecks(p) ==
  /\ pc[p] = "done" /\ req[p].kind = "activate"
  /\ req[p].resp.status \notin {400, 401, 409, 422}

\* C14: an account is inactive when it is created; its flag changes at most
\* once, from false to true, and only in the step that completes an
\* activation of that account which passed the five checks; it never goes
\* back to false. So an active account always has such an activation behind
\* it.
C14_ActiveOnlyByActivation ==
  [][\A r \in users' :
       IF r.id \in Ids(users)
       THEN LET o == WithId(users, r.id) IN
              /\ o.is_active => r.is_active
              /\ r.is_active # o.is_active
                   => \E p \in Procs : /\ Leaves(p, "activate_write")
                                       /\ req[p].kind = "activate"
                                       /\ req[p].email = o.email
       ELSE ~r.is_active
    ]_vars

\* an account was created inactive and an activation of it that passed the
\* five checks has been answered
C14_Witness ==
  \E p \in Procs, r \in users :
    /\ PassedChecks(p)
    /\ req[p].email = r.email
    /\ ~r.is_active
    /\ Notified(r.email)

IsDecimalDigit(c) == \E k \in 1..10 : DigitChars[k] = c

RECURSIVE DecimalValue(_)
DecimalValue(s) ==
  IF s = <<>> THEN 0
  ELSE 10 * DecimalValue(SubSeq(s, 1, Len(s) - 1))
         + (CHOOSE k \in 0..9 : DigitChars[k + 1] = s[Len(s)])

\* exactly four decimal digits, the zero-padded form of an integer of 0..9999
IsFourDigitCode(c) ==
  /\ Len(c) = CodeLen
  /\ \A i \in 1..Len(c) : IsDecimalDigit(c[i])
  /\ DecimalValue(c) \in 0..MaxCode

\* C15: the activation code stored for an inactive account is a string of
\* exactly four decimal digits, the zero-padded decimal form of the integer
\* of 0..9999 the generator drew, and the stored code is the generated one:
\* the one the create holds, and the one the notifier is given.
C15_StoredCodeIsFourDigits ==
  /\ \A r \in users : ~r.is_active => IsFourDigitCode(r.activation_code)
  /\ \A p \in Procs :
       /\ pc[p] \in {"create_insert", "create_notify"}
            => IsFourDigitCode(req[p].gen_code)
       /\ pc[p] = "create_notify"
            => \A r \in RowsOf(users, req[p].email) :
                 r.activation_code = req[p].gen_code
  /\ \A i \in 1..Len(outbox) :
       \A r \in RowsOf(users, outbox[i][1]) : r.activation_code = outbox[i][2]

\* the largest draw, 9999, was generated, stored and notified
C15_Witness ==
  \E r \in users :
    /\ ~r.is_active
    /\ r.activation_code = <<"9", "9", "9", "9">>
    /\ outbox = <<<<r.email, r.activation_code>>>>

\* r is account o with at most its active flag changed
SameButActive(o, r) == r = [o EXCEPT !.is_active = r.is_active]

\* C16: once an account is created, only its active flag ever changes: id,
\* email, password hash, activation code, expiry and creation time are the
\* same in every later state; the step that completes an activation changes
\* nothing but the active flag of the account it names; no step removes an
\* account.
C16_OnlyActiveEverChanges ==
  [][/\ \A o \in users : \E r \in users' : r.id = o.id /\ SameButActive(o, r)
     /\ \A p \in Procs :
          Leaves(p, "activate_write")
            => /\ Ids(users') = Ids(users)
               /\ \A o \in users :
                    o.email # req[p].email => o \in users'
    ]_vars

\* an account created at an earlier time is in the table exactly as it was
\* inserted, after an activation of it that passed the five checks has been
\* answered
C16_Witness ==
  \E p \in Procs, r \in users :
    /\ PassedChecks(p) /\ req[p].email = r.email
    /\ now > r.created_at
    /\ \E i \in 1..Len(outbox) :
         /\ outbox[i][1] = r.email
         /\ \E pw \in Passwords :
              r = NewRow({}, r.email, hash_password(pw), outbox[i][2], r.created_at)

\* the notifications sent for this email
Sent(box, email) == {i \in 1..Len(box) : box[i][1] = email}

\* the creates that have inserted an account for this email and not yet
\* called the notifier
AboutToNotify(at, rq, email) ==
  {p \in Procs : at[p] = "create_notify" /\ rq[p].email = email}

\* C17: a create calls the notifier exactly once if and only if its insert
\* succeeded, in a later step than the insert, with the account's email and
\* the activation code stored for it; a create that ends in
\* AccountAlreadyExists or whose insert fails never calls it, and no
\* activation does.
C17_NotifiedOncePerInsert ==
  [][/\ \A p \in Procs :
          /\ Leaves(p, "create_insert")
               => /\ outbox' = outbox
                  /\ pc'[p] = IF users' # users THEN "create_notify" ELSE "done"
          /\ Leaves(p, "create_notify")
               => /\ pc'[p] = "done"
                  /\ users' = users
                  /\ \E r \in users :
                       /\ RowsOf(users, req[p].email) = {r}
                       /\ outbox' = Append(outbox, <<r.email, r.activation_code>>)
          /\ (Arrives(p) \/ Leaves(p, "activate_write")) => outbox' = outbox
     /\ outbox' # outbox => \E p \in Procs : Leaves(p, "create_notify")
     /\ \A e \in Emails :
          Cardinality(Sent(outbox', e)) + Cardinality(AboutToNotify(pc', req', e))
            = Cardinality(RowsOf(users', e))
    ]_vars

\* one create was answered 201 and the only notification carries its
\* account's stored code; a create for the same email was answered 409 and
\* sent nothing
C17_Witness ==
  \E p, q \in Procs, r \in users :
    /\ pc[p] = "done" /\ req[p].resp = Created201(r.email)
    /\ pc[q] = "done" /\ req[q].resp = UserAlreadyExists(r.email)
    /\ outbox = <<<<r.email, r.activation_code>>>>

\* worker q has answered an activation with one of the activation errors
FailedActivation(q) ==
  /\ pc[q] = "done" /\ req[q].kind = "activate"
  /\ req[q].resp.status \in {400, 401, 409, 422}

\* C18: an activation that ends in an error (InvalidEmail, InvalidPassword,
\* AccountAlreadyActivated, InvalidActivationCode, ExpiredActivationCode or
\* 422) leaves the whole table unchanged; the failed attempt does not use
\* up, rotate or extend the code, so a later request with the right
\* password and code before the expiry still succeeds.
C18_FailedActivationKeepsCodeUsable ==
  [][\A p \in Procs :
       /\ (Arrives(p) /\ req'[p].kind = "activate" /\ pc'[p] = "done")
            => /\ req'[p].resp.status \in {400, 401, 409, 422}
               /\ users' = users
       /\ \A q \in Procs \ {p} :
            (/\ FailedActivation(q)
             /\ req[q].email = req'[p].email
             /\ Completes(p) /\ req'[p].kind = "activate"
             /\ FiveHold(users, now, req'[p].email, req'[p].password, req'[p].code))
              => /\ req'[p].resp = Activated200(req'[p].email)
                 /\ users' = MarkActive(users, req'[p].email)
    ]_vars

====
